---------------------------- MODULE Spec2Model ----------------------------
(* Model of the three report scripts create_charts.py,                    *)
(* create_enhanced_charts.py and create_final_charts.py: one linear run   *)
(* (load -> charts -> read -> replace images -> style/summary edits ->    *)
(* write).  A document is a sequence of tokens; every string the code     *)
(* searches for (an <img> tag, </head>, </body>, </table>, <body>, a      *)
(* placeholder) is one token, so regex matches and str.replace act on     *)
(* single tokens and splice token sequences.                              *)
EXTENDS Integers, Sequences, FiniteSets, TLC

VARIABLES script, pc, csv, data, stats, charts, fs, html_content, num_images,
          log, open, srcAtStart, firstOut, runs, steps

vars == << script, pc, csv, data, stats, charts, fs, html_content, num_images,
           log, open, srcAtStart, firstOut, runs, steps >>

-----------------------------------------------------------------------------
(* Bounds of the model *)

MaxDocLen == 4
MaxRerunDocLen == 3
MaxRuns == 2

(* longest data file of the runs over data files *)
MaxRows == 3

(* longest data file of the runs that rank pages *)
MaxRankRows == 11

-----------------------------------------------------------------------------
(* Tokens *)

ImgTag == "<img src=\"data:image/png;base64,iVBOR\">"
ImgAttrTag == "<img alt=\"chart\" src=\"data:image/png;base64,iVBOR\" />"
HeadClose == "</head>"
BodyOpen == "<body>"
BodyClose == "</body>"
HtmlClose == "</html>"
TableClose == "</table>"
DivClose == "</div>"
NL == "\n"

Scripts == {"charts", "enhanced", "final"}

(* f"__CHART_PLACEHOLDER_{i}__" *)
Placeholder(i) == "__CHART_PLACEHOLDER_" \o ToString(i) \o "__"

(* base64_pattern r'<img src="data:image/png;base64,[^"]+"\s*/?>' : the tag
   may carry the src attribute only. *)
StrictPattern(tok) == tok = ImgTag

(* base64_pattern r'<img[^>]*src="data:image/png;base64,[^"]+[^>]*/?>' :
   other attributes are allowed around src. *)
FlexiblePattern(tok) == tok \in {ImgTag, ImgAttrTag}

base64_pattern(s, tok) ==
    IF s = "final" THEN FlexiblePattern(tok) ELSE StrictPattern(tok)

-----------------------------------------------------------------------------
(* String primitives on token sequences *)

(* tok in doc *)
Contains(doc, tok) == \E i \in 1..Len(doc) : doc[i] = tok

(* str.find(tok): 1-based index of the first occurrence, 0 when absent *)
Find(doc, tok) ==
    IF Contains(doc, tok)
    THEN CHOOSE i \in 1..Len(doc) :
            doc[i] = tok /\ \A j \in 1..(i - 1) : doc[j] # tok
    ELSE 0

(* str.replace(old, new): every occurrence, one pass over the original *)
RECURSIVE ReplaceAll(_, _, _)
ReplaceAll(doc, old, new) ==
    IF doc = << >> THEN << >>
    ELSE (IF Head(doc) = old THEN new ELSE << Head(doc) >>)
            \o ReplaceAll(Tail(doc), old, new)

(* str.replace(old, new, 1): the first occurrence only *)
ReplaceFirst(doc, old, new) ==
    LET i == Find(doc, old)
    IN  IF i = 0 THEN doc
        ELSE SubSeq(doc, 1, i - 1) \o new \o SubSeq(doc, i + 1, Len(doc))

(* re.findall(base64_pattern, doc): the matched tags, left to right *)
FindAll(s, doc) == SelectSeq(doc, LAMBDA tok : base64_pattern(s, tok))

(* a substitution that takes the last match instead of the first *)
SubLast(s, doc, new) ==
    IF \E i \in 1..Len(doc) : base64_pattern(s, doc[i])
    THEN LET i == CHOOSE k \in 1..Len(doc) :
                     /\ base64_pattern(s, doc[k])
                     /\ \A j \in (k + 1)..Len(doc) : ~base64_pattern(s, doc[j])
         IN  SubSeq(doc, 1, i - 1) \o new \o SubSeq(doc, i + 1, Len(doc))
    ELSE doc

(* re.sub(base64_pattern, lambda m: new, doc, count=1) *)
SubFirst(s, doc, new) ==
    IF \E i \in 1..Len(doc) : base64_pattern(s, doc[i])
    THEN LET i == CHOOSE k \in 1..Len(doc) :
                     /\ base64_pattern(s, doc[k])
                     /\ \A j \in 1..(k - 1) : ~base64_pattern(s, doc[j])
         IN  SubSeq(doc, 1, i - 1) \o new \o SubSeq(doc, i + 1, Len(doc))
    ELSE doc

(* str.split(sep): the pieces between the occurrences of sep *)
RECURSIVE Split(_, _)
Split(doc, sep) ==
    LET i == Find(doc, sep)
    IN  IF i = 0 THEN << doc >>
        ELSE << SubSeq(doc, 1, i - 1) >>
                \o Split(SubSeq(doc, i + 1, Len(doc)), sep)

(* str.strip(): leading and trailing whitespace removed *)
RECURSIVE LStrip(_)
LStrip(doc) ==
    IF doc # << >> /\ Head(doc) = NL THEN LStrip(Tail(doc)) ELSE doc

RECURSIVE RStrip(_)
RStrip(doc) ==
    IF doc # << >> /\ doc[Len(doc)] = NL
    THEN RStrip(SubSeq(doc, 1, Len(doc) - 1)) ELSE doc

Strip(doc) == RStrip(LStrip(doc))

-----------------------------------------------------------------------------
(* Metrics Deriver *)

(* .round(2) in create_charts.py, .round(4) in the other two scripts *)
Precision(s) == IF s = "charts" THEN 2 ELSE 4

RECURSIVE Pow10(_)
Pow10(n) == IF n = 0 THEN 1 ELSE 10 * Pow10(n - 1)

(* num / den cut off after the last kept digit instead of rounded *)
TruncDiv(num, den) == num \div den

(* round(num / den) to an integer, ties to even (numpy's rule), den > 0 *)
RoundDiv(num, den) ==
    LET q == num \div den
        r == num % den
    IN  IF 2 * r < den THEN q
        ELSE IF 2 * r > den THEN q + 1
        ELSE IF q % 2 = 0 THEN q ELSE q + 1

(* A float of the derived columns: a finite number kept as an integer count
   of 10^-P units, an infinity with its sign in v, or NaN *)
Fin(n) == [ k |-> "fin", v |-> n ]
PosInf == [ k |-> "inf", v |-> 1 ]
NegInf == [ k |-> "inf", v |-> -1 ]
NaN == [ k |-> "nan", v |-> 0 ]

(* (conversions / sessions * 100).round(P) on pandas columns: a zero
   denominator does not raise, 0/0 is NaN and c/0 is inf for c > 0 *)
Rate(s, conversions, sessions) ==
    IF sessions = 0
    THEN (IF conversions = 0 THEN NaN ELSE PosInf)
    ELSE Fin(RoundDiv(conversions * 100 * Pow10(Precision(s)), sessions))

(* (a - b).round(P) of two values that are already rounded to P places *)
FSub(a, b) ==
    IF a.k = "nan" \/ b.k = "nan" THEN NaN
    ELSE IF a.k = "inf"
    THEN (IF b.k = "inf" /\ b.v = a.v THEN NaN ELSE a)
    ELSE IF b.k = "inf" THEN [ k |-> "inf", v |-> 0 - b.v ]
    ELSE Fin(a.v - b.v)

(* a > b on floats: false as soon as one side is NaN *)
FGt(a, b) ==
    /\ a.k # "nan"
    /\ b.k # "nan"
    /\ IF a.k = "inf" THEN a.v = 1 /\ ~(b.k = "inf" /\ b.v = 1)
       ELSE IF b.k = "inf" THEN b.v = -1
       ELSE a.v > b.v

(* a == b on floats: NaN equals nothing *)
FEq(a, b) == a.k # "nan" /\ a = b

(* the derived columns added to one row *)
DeriveRow(s, row) ==
    LET pre == Rate(s, row.conversions_pre, row.sessions_pre)
        post == Rate(s, row.conversions_post, row.sessions_post)
    IN  [ page |-> row.page,
          sessions_pre |-> row.sessions_pre,
          sessions_post |-> row.sessions_post,
          conversions_pre |-> row.conversions_pre,
          conversions_post |-> row.conversions_post,
          conversion_rate_pre |-> pre,
          conversion_rate_post |-> post,
          conversion_rate_change |-> FSub(post, pre),
          conversions_change |-> row.conversions_post - row.conversions_pre,
          sessions_change |-> row.sessions_post - row.sessions_pre ]

(* load_data / load_and_process_data on the rows of the CSV *)
Derive(s, rows) == [ i \in 1..Len(rows) |-> DeriveRow(s, rows[i]) ]

(* len(data[data['conversion_rate_change'] > 0]) *)
Wins(d) ==
    Cardinality({ i \in 1..Len(d) : FGt(d[i].conversion_rate_change, Fin(0)) })

(* data[column].sum() *)
RECURSIVE SumCol(_, _)
SumCol(d, column) ==
    IF d = << >> THEN 0 ELSE Head(d)[column] + SumCol(Tail(d), column)

(* an unrounded quotient num / den of two column totals; numpy does not
   raise on den = 0, the value is then inf or NaN *)
Quot(n, d) == [ num |-> n, den |-> d ]

(* a - b on two quotients *)
QSub(a, b) == Quot(a.num * b.den - b.num * a.den, a.den * b.den)

(* total_conversions / total_sessions * 100 *)
OverallRate(conversions, sessions) == Quot(conversions * 100, sessions)

(* the headline rates taken as the mean of the per-row rates instead *)
RECURSIVE SumOfRates(_, _, _)
SumOfRates(d, conversions, sessions) ==
    IF d = << >> THEN Quot(0, 1)
    ELSE LET r == Quot(Head(d)[conversions] * 100, Head(d)[sessions])
             rest == SumOfRates(Tail(d), conversions, sessions)
         IN  Quot(r.num * rest.den + rest.num * r.den, r.den * rest.den)

MeanOfRates(d, conversions, sessions) ==
    LET total == SumOfRates(d, conversions, sessions)
    IN  Quot(total.num, total.den * Len(d))

HeadlineOfMeans(d) ==
    LET pre == MeanOfRates(d, "conversions_pre", "sessions_pre")
        post == MeanOfRates(d, "conversions_post", "sessions_post")
    IN  [ total_sessions_pre |-> SumCol(d, "sessions_pre"),
          total_sessions_post |-> SumCol(d, "sessions_post"),
          total_conversions_pre |-> SumCol(d, "conversions_pre"),
          total_conversions_post |-> SumCol(d, "conversions_post"),
          overall_conv_rate_pre |-> pre,
          overall_conv_rate_post |-> post,
          conv_rate_change_pp |-> QSub(post, pre) ]

(* the totals and headline metrics of create_executive_summary_chart and
   create_overall_results_chart *)
Headline(d) ==
    LET total_sessions_pre == SumCol(d, "sessions_pre")
        total_sessions_post == SumCol(d, "sessions_post")
        total_conversions_pre == SumCol(d, "conversions_pre")
        total_conversions_post == SumCol(d, "conversions_post")
        overall_conv_rate_pre ==
            OverallRate(total_conversions_pre, total_sessions_pre)
        overall_conv_rate_post ==
            OverallRate(total_conversions_post, total_sessions_post)
    IN  [ total_sessions_pre |-> total_sessions_pre,
          total_sessions_post |-> total_sessions_post,
          total_conversions_pre |-> total_conversions_pre,
          total_conversions_post |-> total_conversions_post,
          overall_conv_rate_pre |-> overall_conv_rate_pre,
          overall_conv_rate_post |-> overall_conv_rate_post,
          conv_rate_change_pp |->
              QSub(overall_conv_rate_post, overall_conv_rate_pre) ]

(* len(data[data['conversion_rate_change'] < 0]) *)
Losses(d) ==
    Cardinality({ i \in 1..Len(d) : FGt(Fin(0), d[i].conversion_rate_change) })

(* len(data[data['conversion_rate_change'] == 0]) *)
Neutral(d) ==
    Cardinality({ i \in 1..Len(d) : FEq(d[i].conversion_rate_change, Fin(0)) })

(* the next row taken when the last of the rows holding the best value is
   preferred (keep='last') *)
ArgBestLast(d, idxs, largest) ==
    LET c(i) == d[i].conversion_rate_change
        Better(a, b) == IF largest THEN FGt(a, b) ELSE FGt(b, a)
        valued == { i \in idxs : c(i).k # "nan" }
        best == { i \in valued : \A j \in valued : ~Better(c(j), c(i)) }
        pool == IF valued = { } THEN idxs ELSE best
    IN  CHOOSE i \in pool : \A j \in pool : i >= j

(* the row that nlargest (largest = TRUE) or nsmallest takes next among the
   rows idxs: the first row holding the best value; rows whose value is NaN
   come after all others, in input order *)
ArgBest(d, idxs, largest) ==
    LET c(i) == d[i].conversion_rate_change
        Better(a, b) == IF largest THEN FGt(a, b) ELSE FGt(b, a)
        valued == { i \in idxs : c(i).k # "nan" }
        best == { i \in valued : \A j \in valued : ~Better(c(j), c(i)) }
        pool == IF valued = { } THEN idxs ELSE best
    IN  CHOOSE i \in pool : \A j \in pool : i <= j

RECURSIVE SelectN(_, _, _, _)
SelectN(d, idxs, n, largest) ==
    IF n = 0 \/ idxs = { } THEN << >>
    ELSE LET i == ArgBest(d, idxs, largest)
         IN  << d[i] >> \o SelectN(d, idxs \ { i }, n - 1, largest)

(* data.nlargest(n, 'conversion_rate_change'), keep='first' *)
nlargest(d, n) == SelectN(d, 1..Len(d), n, TRUE)

(* data.nsmallest(n, 'conversion_rate_change'), keep='first' *)
nsmallest(d, n) == SelectN(d, 1..Len(d), n, FALSE)

(* rows asked of nlargest: 10 in create_top_wins_chart, 15 and 12 in the
   create_top_performers_chart of the enhanced and final scripts *)
TopK(s) == IF s = "charts" THEN 10 ELSE IF s = "enhanced" THEN 15 ELSE 12

(* rows asked of nsmallest: 5 in the enhanced script, 3 in the final one;
   create_charts.py has no bottom list *)
BottomK(s) == IF s = "charts" THEN 0 ELSE IF s = "enhanced" THEN 5 ELSE 3

(* what the chart functions compute from the table: headline metrics, the
   three class counts, the top and bottom rows and their concatenation *)
ChartStats(s, d) ==
    LET top == nlargest(d, TopK(s))
        bottom == nsmallest(d, BottomK(s))
    IN  [ headline |-> Headline(d),
          wins |-> Wins(d),
          losses |-> Losses(d),
          neutral |-> Neutral(d),
          top |-> top,
          bottom |-> bottom,
          combined |-> top \o bottom ]

NoStats == ChartStats("charts", << >>)

Row(p, sp, so, cp, co) ==
    [ page |-> p, sessions_pre |-> sp, sessions_post |-> so,
      conversions_pre |-> cp, conversions_post |-> co ]

(* the data files the runs are checked on: a header-only table, and a table
   with one improved and one declined page *)
Tables ==
    { << >>,
      << Row("/a", 100, 120, 5, 9), Row("/b", 200, 150, 8, 3) >> }

-----------------------------------------------------------------------------
(* Chart rendering *)

PlotDiv(div_id) == "<div id=\"" \o div_id \o "\" class=\"plotly-graph-div\">"

(* fig.to_html(..., div_id=div_id) with the default full_html=True: a whole
   HTML document around the chart div *)
ToHtml(div_id) ==
    << "<html>", NL, "<head><meta charset=\"utf-8\" />", HeadClose, NL,
       BodyOpen, NL, PlotDiv(div_id), NL, BodyClose, NL, HtmlClose >>

(* the three chart documents of each script *)
ChartHtml(s) ==
    IF s = "charts"
    THEN [ first |-> ToHtml("overall-results-chart"),
           second |-> ToHtml("top-wins-chart"),
           third |-> ToHtml("summary-chart") ]
    ELSE IF s = "enhanced"
    THEN [ first |-> ToHtml("executive-dashboard"),
           second |-> ToHtml("top-performers"),
           third |-> ToHtml("performance-distribution") ]
    ELSE [ first |-> ToHtml("executive-chart"),
           second |-> ToHtml("performers-chart"),
           third |-> ToHtml("distribution-chart") ]

NoCharts == [ first |-> << >>, second |-> << >>, third |-> << >> ]

(* wins/len(data) in the executive chart of the enhanced and final scripts
   divides by the row count *)
ChartsRaise(s, d) == s # "charts" /\ Len(d) = 0

(* html_string.split('<body>')[1].split('</body>')[0] *)
BodyOf(html) == Split(Split(html, BodyOpen)[2], BodyClose)[1]

(* extract_chart_div of create_final_charts.py *)
extract_chart_div(html_string) ==
    IF Contains(html_string, BodyOpen) /\ Contains(html_string, BodyClose)
    THEN Strip(BodyOf(html_string))
    ELSE html_string

(* the content spliced for the first image *)
FirstContent(s, html) ==
    IF s = "final" THEN extract_chart_div(html)
    ELSE IF s = "enhanced"
    THEN (IF Contains(html, BodyOpen) THEN BodyOf(html) ELSE html)
    ELSE BodyOf(html)

ContainerOpen(s, k) ==
    IF s = "charts" THEN "<div class=\"chart-container\">"
    ELSE IF k = 1
    THEN (IF s = "final"
          THEN "<div class=\"chart-container executive-summary\">"
          ELSE "<div class=\"chart-container executive-dashboard\">")
    ELSE IF k = 2 THEN "<div class=\"chart-container top-performers\">"
    ELSE "<div class=\"chart-container performance-distribution\">"

(* the replacement fragments, in the order they are spliced: two in
   create_charts.py, three in the other scripts *)
Fragments(s, c) ==
    LET f1 == << ContainerOpen(s, 1) >> \o FirstContent(s, c.first)
                 \o << DivClose >>
        f2 == << ContainerOpen(s, 2) >> \o c.second \o << DivClose >>
        f3 == << ContainerOpen(s, 3) >> \o c.third \o << DivClose >>
    IN  IF s = "charts" THEN << f1, f2 >> ELSE << f1, f2, f3 >>

-----------------------------------------------------------------------------
(* Report Patcher: image replacement *)

(* the loop of find_and_replace_images: the i-th match (0-based) becomes
   __CHART_PLACEHOLDER_i__ by html_content.replace(match, placeholder, 1) *)
RECURSIVE ToPlaceholders(_, _, _)
ToPlaceholders(doc, matches, i) ==
    IF i > Len(matches) THEN doc
    ELSE ToPlaceholders(ReplaceFirst(doc, matches[i], << Placeholder(i - 1) >>),
                        matches, i + 1)

(* find_and_replace_images(html_content) -> (html_content, len(matches)) *)
find_and_replace_images(doc) ==
    LET matches == FindAll("final", doc)
    IN  [ html |-> ToPlaceholders(doc, matches, 1), n |-> Len(matches) ]

(* for i, chart_html in enumerate(chart_containers): replace the placeholder
   by the container when the placeholder is in the document *)
RECURSIVE FillPlaceholders(_, _, _)
FillPlaceholders(doc, frags, k) ==
    IF k > Len(frags) THEN doc
    ELSE FillPlaceholders(
            IF Contains(doc, Placeholder(k - 1))
            THEN ReplaceAll(doc, Placeholder(k - 1), frags[k])
            ELSE doc,
            frags, k + 1)

(* the substitutions made with the fragments taken in the opposite order *)
RECURSIVE SubEachReversed(_, _, _, _)
SubEachReversed(s, doc, frags, k) ==
    IF k > Len(frags) THEN doc
    ELSE SubEachReversed(s, SubFirst(s, doc, frags[Len(frags) + 1 - k]),
                         frags, k + 1)

(* the successive re.sub(base64_pattern, ..., count=1) calls *)
RECURSIVE SubEach(_, _, _, _)
SubEach(s, doc, frags, k) ==
    IF k > Len(frags) THEN doc
    ELSE SubEach(s, SubFirst(s, doc, frags[k]), frags, k + 1)

(* the image replacement of each script on the document just read *)
ReplaceImagesOp(s, c, doc) ==
    IF s = "final"
    THEN LET r == find_and_replace_images(doc)
         IN  IF r.n >= 3 THEN FillPlaceholders(r.html, Fragments(s, c), 1)
             ELSE r.html
    ELSE SubEach(s, doc, Fragments(s, c), 1)

(* what the image replacement prints *)
Msg(m, k) == [ msg |-> m, n |-> k ]

RECURSIVE FillLog(_, _, _)
FillLog(doc, frags, k) ==
    IF k > Len(frags) THEN << >>
    ELSE << IF Contains(doc, Placeholder(k - 1))
            THEN Msg("Replaced chart", k)
            ELSE Msg("Warning: Placeholder not found", k - 1) >>
         \o FillLog(IF Contains(doc, Placeholder(k - 1))
                    THEN ReplaceAll(doc, Placeholder(k - 1), frags[k])
                    ELSE doc,
                    frags, k + 1)

ReplaceImagesLog(s, c, doc) ==
    IF s = "final"
    THEN LET r == find_and_replace_images(doc)
         IN  << Msg("Found base64 images", r.n) >>
             \o (IF r.n >= 3 THEN FillLog(r.html, Fragments(s, c), 1)
                 ELSE << Msg("Warning: Expected 3 images, found", r.n) >>)
    ELSE IF s = "enhanced"
    THEN << Msg("Found base64 images to replace", Len(FindAll(s, doc))) >>
    ELSE << >>

(* num_images (final) / current_images (enhanced) *)
ImagesFound(s, doc) == IF s = "charts" THEN 0 ELSE Len(FindAll(s, doc))

-----------------------------------------------------------------------------
(* Report Patcher: style and summary edits *)

StyleBlock(s) ==
    IF s = "charts" THEN "<style>.chart-container{margin;padding}</style>"
    ELSE IF s = "enhanced"
    THEN "<style>.chart-container.executive-dashboard{}</style>"
    ELSE "<style>.chart-container.executive-summary{}</style>"

(* css_insert / enhanced_css: the style block followed by </head> *)
enhanced_css(s) == << StyleBlock(s), HeadClose >>

(* a style insertion at the first head-closing marker only *)
InsertStyleFirstOnly(s, doc) == ReplaceFirst(doc, HeadClose, enhanced_css(s))

(* html_content.replace('</head>', enhanced_css) *)
InsertStyleOp(s, doc) == ReplaceAll(doc, HeadClose, enhanced_css(s))

(* summary_stats of the enhanced and final scripts, built from the data *)
SummaryDiv(d) ==
    "<div class=\"summary-statistics\">improved=" \o ToString(Wins(d))
        \o "</div>"

summary_stats(d) == << SummaryDiv(d) >>

SectionHead == "<h3>Performance Distribution</h3><p>...</p>"

(* chart_section of create_charts.py: heading, then the summary chart
   document in a container *)
chart_section(c) ==
    << SectionHead, ContainerOpen("charts", 3) >> \o c.third \o << DivClose >>

(* create_charts.py: after the first </table>, when there is one;
   the other scripts: html_content.replace('</body>', summary_stats + '</body>') *)
InsertSummaryOp(s, d, c, doc) ==
    IF s = "charts"
    THEN IF Contains(doc, TableClose)
         THEN LET insertion_point == Find(doc, TableClose)
              IN  SubSeq(doc, 1, insertion_point) \o chart_section(c)
                    \o SubSeq(doc, insertion_point + 1, Len(doc))
         ELSE doc
    ELSE ReplaceAll(doc, BodyClose, summary_stats(d) \o << BodyClose >>)

(* the in-memory edits of one run, in the order the script applies them *)
Patch(s, d, c, doc) ==
    LET replaced == ReplaceImagesOp(s, c, doc)
    IN  IF s = "charts"
        THEN InsertStyleOp(s, InsertSummaryOp(s, d, c, replaced))
        ELSE InsertSummaryOp(s, d, c, InsertStyleOp(s, replaced))

-----------------------------------------------------------------------------
(* Files *)

CsvPath == "data/Pre_vs_Post_Request_Information_Submits.csv"
SrcPath == "UAGC RFI Conversion Analysis Report.html"
UpdatedPath == "UAGC RFI Conversion Analysis Report_updated.html"
EnhancedPath == "UAGC RFI Conversion Analysis Report_enhanced.html"

Paths == { SrcPath, UpdatedPath, EnhancedPath }

(* a script that writes the report back in place *)
OutPathInPlace(s) == SrcPath

(* the path each script opens with mode 'w' *)
OutPath(s) == IF s = "charts" THEN UpdatedPath ELSE EnhancedPath

(* an open file object: open(path, mode) *)
Handle(p, m) == [ path |-> p, mode |-> m ]

Absent == [ exists |-> FALSE, content |-> << >> ]
File(doc) == [ exists |-> TRUE, content |-> doc ]

(* the tokens source documents are built from *)
SrcTokens ==
    { ImgTag, ImgAttrTag, HeadClose, BodyClose, TableClose, Placeholder(0) }

Docs(n) == UNION { [ 1..k -> SrcTokens ] : k \in 0..n }

-----------------------------------------------------------------------------
(* One run of a script *)

(* the state a script starts in, for a data file among tables (or none) and
   a source report among docs (or none) *)
InitOn(tables, docs) ==
    /\ script \in Scripts
    /\ pc = "start"
    /\ csv \in { Absent } \cup { File(t) : t \in tables }
    /\ data = << >>
    /\ stats = NoStats
    /\ charts = NoCharts
    /\ \E src \in { Absent } \cup { File(d) : d \in docs } :
          fs = [ p \in Paths |-> IF p = SrcPath THEN src ELSE Absent ]
    /\ html_content = << >>
    /\ num_images = 0
    /\ log = << >>
    /\ open = { }
    /\ srcAtStart = fs[SrcPath]
    /\ firstOut = << >>
    /\ runs = 1
    /\ steps = << >>

InitWith(n) == InitOn(Tables, Docs(n))

Init == InitWith(MaxDocLen)

(* an exception leaves update_html_with_*charts; the enhanced and final
   scripts catch it in __main__ and print it, create_charts.py does not *)
Raise(what) ==
    /\ pc' = "failed"
    /\ log' = IF script = "charts" THEN log
              ELSE Append(log, Msg("Error: " \o what, 0))

(* the exit status of the process when the run has stopped at p: an
   exception that nothing catches ends create_charts.py with status 1; the
   except branch of the other two scripts prints and falls off the end of
   the script, as a run without exception does *)
ExitStatus(s, p) == IF p = "failed" /\ s = "charts" THEN 1 ELSE 0

(* pd.read_csv and the derived columns *)
LoadData ==
    /\ pc = "start"
    /\ \/ /\ csv.exists
          /\ data' = Derive(script, csv.content)
          /\ pc' = "loaded"
          /\ steps' = Append(steps, "load")
          /\ log' = IF script = "charts" THEN log
                    ELSE Append(log, Msg("Loaded pages of data",
                                         Len(csv.content)))
       \/ /\ ~csv.exists
          /\ Raise("FileNotFoundError")
          /\ UNCHANGED << data, steps >>
    /\ UNCHANGED << script, csv, stats, charts, fs, html_content, num_images,
                    open, srcAtStart, firstOut, runs >>

(* the three create_*_chart calls and to_html *)
CreateCharts ==
    /\ pc = "loaded"
    /\ \/ /\ ~ChartsRaise(script, data)
          /\ stats' = ChartStats(script, data)
          /\ charts' = ChartHtml(script)
          /\ pc' = "charted"
          /\ steps' = Append(steps, "charts")
          /\ UNCHANGED log
       \/ /\ ChartsRaise(script, data)
          /\ Raise("ZeroDivisionError")
          /\ UNCHANGED << stats, charts, steps >>
    /\ UNCHANGED << script, csv, data, fs, html_content, num_images, open,
                    srcAtStart, firstOut, runs >>

(* a with block that keeps its file open after the block *)
KeepOpen(handles, h) == handles

(* leaving a with block, by its end or by an exception, closes its file *)
Close(handles, h) == handles \ { h }

(* with open(source, 'r') as f: *)
OpenSource ==
    /\ pc = "charted"
    /\ \/ /\ fs[SrcPath].exists
          /\ open' = open \cup { Handle(SrcPath, "r") }
          /\ pc' = "reading"
          /\ UNCHANGED log
       \/ /\ ~fs[SrcPath].exists
          /\ Raise("FileNotFoundError")
          /\ UNCHANGED open
    /\ UNCHANGED << steps, script, csv, stats, data, charts, fs, html_content,
                    num_images, srcAtStart, firstOut, runs >>

(* html_content = f.read(), and the with block closes f; a failing read
   closes f as well *)
ReadSource ==
    /\ pc = "reading"
    /\ open' = Close(open, Handle(SrcPath, "r"))
    /\ \/ /\ html_content' = fs[SrcPath].content
          /\ pc' = "read"
          /\ steps' = Append(steps, "read")
          /\ UNCHANGED log
       \/ /\ Raise("OSError")
          /\ UNCHANGED << html_content, steps >>
    /\ UNCHANGED << script, csv, stats, data, charts, fs, num_images,
                    srcAtStart, firstOut, runs >>

(* the image replacement of the script *)
ReplaceImages ==
    /\ pc = "read"
    /\ html_content' = ReplaceImagesOp(script, charts, html_content)
    /\ num_images' = ImagesFound(script, html_content)
    /\ log' = log \o ReplaceImagesLog(script, charts, html_content)
    /\ pc' = "replaced"
    /\ steps' = Append(steps, "images")
    /\ UNCHANGED << script, csv, stats, data, charts, fs, open, srcAtStart,
                    firstOut, runs >>

(* html_content.replace('</head>', css): second edit in create_charts.py,
   first edit in the other scripts *)
InsertStyle ==
    /\ pc = IF script = "charts" THEN "summarised" ELSE "replaced"
    /\ html_content' = InsertStyleOp(script, html_content)
    /\ pc' = IF script = "charts" THEN "edited" ELSE "styled"
    /\ steps' = Append(steps, "style")
    /\ UNCHANGED << script, csv, stats, data, charts, fs, num_images, log,
                    open, srcAtStart, firstOut, runs >>

(* the summary insertion: first edit in create_charts.py, second edit in the
   other scripts (whose wins / len(data) cannot raise here: an empty table
   has already raised in CreateCharts) *)
InsertSummary ==
    /\ pc = IF script = "charts" THEN "replaced" ELSE "styled"
    /\ html_content' = InsertSummaryOp(script, data, charts, html_content)
    /\ pc' = IF script = "charts" THEN "summarised" ELSE "edited"
    /\ steps' = Append(steps, "summary")
    /\ UNCHANGED << script, csv, stats, data, charts, fs, num_images, log,
                    open, srcAtStart, firstOut, runs >>

(* the output file opened as soon as the images are replaced, before the
   style and summary edits *)
OpenOutputEarly ==
    /\ pc \in {"replaced", "edited"}
    /\ \/ /\ fs' = [ fs EXCEPT ![OutPath(script)] = File(<< >>) ]
          /\ open' = open \cup { Handle(OutPath(script), "w") }
          /\ pc' = "writing"
          /\ UNCHANGED log
       \/ /\ Raise("PermissionError")
          /\ UNCHANGED << fs, open >>
    /\ UNCHANGED << steps, script, csv, stats, data, charts, html_content,
                    num_images, srcAtStart, firstOut, runs >>

(* with open(output, 'w') as f: creates or truncates the output file, or
   fails and leaves the files alone *)
OpenOutput ==
    /\ pc = "edited"
    /\ \/ /\ fs' = [ fs EXCEPT ![OutPath(script)] = File(<< >>) ]
          /\ open' = open \cup { Handle(OutPath(script), "w") }
          /\ pc' = "writing"
          /\ UNCHANGED log
       \/ /\ Raise("PermissionError")
          /\ UNCHANGED << fs, open >>
    /\ UNCHANGED << steps, script, csv, stats, data, charts, html_content,
                    num_images, srcAtStart, firstOut, runs >>

(* f.write(html_content), and the with block closes f; a failing write
   closes f as well *)
WriteOutput ==
    /\ pc = "writing"
    /\ open' = Close(open, Handle(OutPath(script), "w"))
    /\ \/ /\ fs' = [ fs EXCEPT ![OutPath(script)] = File(html_content) ]
          /\ firstOut' = IF runs = 1 THEN html_content ELSE firstOut
          /\ pc' = "written"
          /\ steps' = Append(steps, "write")
          /\ UNCHANGED log
       \/ /\ Raise("OSError")
          /\ UNCHANGED << fs, firstOut, steps >>
    /\ UNCHANGED << script, csv, stats, data, charts, html_content,
                    num_images, srcAtStart, runs >>

(* the closing messages *)
FinishLog(s, doc, found) ==
    IF s = "final"
    THEN << Msg("Replaced base64 images with interactive charts", found) >>
    ELSE IF s = "enhanced"
    THEN LET remaining_images == Len(FindAll(s, doc))
         IN  << Msg("Replaced base64 images with interactive charts",
                    found - remaining_images),
                Msg("Remaining base64 images", remaining_images) >>
             \o (IF remaining_images > 0
                 THEN << Msg("Some images were not replaced", 0) >>
                 ELSE << >>)
    ELSE << Msg("HTML report updated successfully!", 0) >>

Finish ==
    /\ pc = "written"
    /\ log' = log \o FinishLog(script, html_content, num_images)
    /\ pc' = "done"
    /\ UNCHANGED << steps, script, csv, stats, data, charts, fs, html_content,
                    num_images, open, srcAtStart, firstOut, runs >>

Next ==
    \/ LoadData
    \/ CreateCharts
    \/ OpenSource
    \/ ReadSource
    \/ ReplaceImages
    \/ InsertStyle
    \/ InsertSummary
    \/ OpenOutput
    \/ WriteOutput
    \/ Finish

Spec == Init /\ [][Next]_vars

(* the script is started again on the same files *)
Rerun ==
    /\ pc = "done"
    /\ runs < MaxRuns
    /\ runs' = runs + 1
    /\ pc' = "start"
    /\ data' = << >>
    /\ stats' = NoStats
    /\ steps' = << >>
    /\ charts' = NoCharts
    /\ html_content' = << >>
    /\ num_images' = 0
    /\ log' = << >>
    /\ srcAtStart' = fs[SrcPath]
    /\ UNCHANGED << script, csv, fs, open, firstOut >>

InitRerun == InitWith(MaxRerunDocLen)

NextRerun == Next \/ Rerun

SpecRerun == InitRerun /\ [][NextRerun]_vars

-----------------------------------------------------------------------------
(* Runs over a range of data files *)

Page(i) == "/page-" \o ToString(i)

(* the rows of a data file whose i-th row has the counts kinds[i]
   = << sessions_pre, sessions_post, conversions_pre, conversions_post >> *)
WithPages(kinds) ==
    [ i \in 1..Len(kinds) |->
        Row(Page(i), kinds[i][1], kinds[i][2], kinds[i][3], kinds[i][4]) ]

TablesOfLen(kinds, lengths) ==
    { WithPages(f) : f \in UNION { [ 1..k -> kinds ] : k \in lengths } }

TablesOf(kinds, n) == TablesOfLen(kinds, 0..n)

(* rows of the data files: an improved page, a declined page, a page with no
   sessions before, an unchanged page, a page with no sessions after, a
   page whose rates do not end at the rounding digit, and a page whose
   change is below one hundredth of a point *)
RowKinds ==
    { << 100, 120, 5, 9 >>, << 200, 150, 8, 3 >>, << 0, 50, 0, 2 >>,
      << 120, 120, 5, 5 >>, << 50, 0, 2, 3 >>, << 3, 3, 1, 2 >>,
      << 300, 299, 1, 1 >> }

(* rows of the long data files: an improved page and a declined page *)
RankKinds == { << 100, 120, 5, 9 >>, << 200, 150, 8, 3 >> }

(* the report the data runs patch: three images, a head and a body *)
DataDocs == { << ImgTag, HeadClose, ImgTag, ImgTag, BodyClose >> }

InitData == InitOn(TablesOf(RowKinds, MaxRows), DataDocs)

SpecData == InitData /\ [][Next]_vars

(* lengths of the long data files: up to one row more than the longest
   bottom list, and the longest length, which exceeds the top list of
   create_top_wins_chart *)
RankLengths(n) == (0..(BottomK("enhanced") + 1)) \cup { n }

InitRank == InitOn(TablesOfLen(RankKinds, RankLengths(MaxRankRows)), DataDocs)

SpecRank == InitRank /\ [][Next]_vars

-----------------------------------------------------------------------------
(* Vocabulary of the properties *)

(* the source document the current run started from *)
Src == srcAtStart.content

(* number of replacement fragments of a script *)
NumFragments(s) == Len(Fragments(s, ChartHtml(s)))

(* embedded images of a document, by the script's own pattern *)
Images(s, doc) == FindAll(s, doc)

HasPlaceholder(doc) ==
    \E i \in 1..Len(doc) : \E k \in 0..Len(doc) : doc[i] = Placeholder(k)

(* number of occurrences of the token in doc *)
RECURSIVE Count(_, _)
Count(doc, tok) ==
    IF doc = << >> THEN 0
    ELSE (IF Head(doc) = tok THEN 1 ELSE 0) + Count(Tail(doc), tok)

(* frag occurs in doc at position i *)
OccursAt(doc, frag, i) ==
    /\ i + Len(frag) - 1 <= Len(doc)
    /\ \A j \in 1..Len(frag) : doc[i + j - 1] = frag[j]

(* number of occurrences of frag in doc *)
Occurrences(doc, frag) ==
    Cardinality({ i \in 1..Len(doc) : OccursAt(doc, frag, i) })

(* one left-to-right pass: the k-th image of doc gives way to the k-th
   fragment, images beyond the fragments stay *)
RECURSIVE Spliced(_, _, _, _)
Spliced(s, doc, frags, k) ==
    IF doc = << >> THEN << >>
    ELSE IF base64_pattern(s, Head(doc)) /\ k <= Len(frags)
    THEN frags[k] \o Spliced(s, Tail(doc), frags, k + 1)
    ELSE << Head(doc) >>
            \o Spliced(s, Tail(doc), frags, IF base64_pattern(s, Head(doc))
                                            THEN k + 1 ELSE k)

Replaced == pc = "replaced"

-----------------------------------------------------------------------------
(* C1 as stated: in the enhanced and final scripts, a source document with
   exactly 3 embedded images comes out of the image replacement with no
   image left and each of the 3 fragments exactly once, the i-th fragment
   where the i-th image stood. *)
C1_FullMatchAnySource ==
    (Replaced /\ script \in {"enhanced", "final"}
        /\ Len(Images(script, Src)) = 3)
    => /\ Images(script, html_content) = << >>
       /\ \A k \in 1..3 :
            Occurrences(html_content, Fragments(script, charts)[k]) = 1
       /\ html_content = Spliced(script, Src, Fragments(script, charts), 1)

(* C1 amended: the same, for source documents that do not themselves contain
   the text of a __CHART_PLACEHOLDER_i__ token. *)
C1_FullMatch ==
    (Replaced /\ script \in {"enhanced", "final"}
        /\ Len(Images(script, Src)) = 3 /\ ~HasPlaceholder(Src))
    => /\ Images(script, html_content) = << >>
       /\ \A k \in 1..3 :
            Occurrences(html_content, Fragments(script, charts)[k]) = 1
       /\ html_content = Spliced(script, Src, Fragments(script, charts), 1)

C1_Witness ==
    /\ Replaced /\ script = "final"
    /\ Len(Images(script, Src)) = 3 /\ ~HasPlaceholder(Src)
    /\ Contains(Src, ImgAttrTag) /\ Contains(Src, ImgTag)
    /\ Images(script, html_content) = << >>

-----------------------------------------------------------------------------
(* the file the run has written *)
Out == fs[OutPath(script)]

Done == pc = "done"

Logged(m, k) == \E i \in 1..Len(log) : log[i] = Msg(m, k)

(* C2: in the enhanced and final scripts, a source document with M embedded
   images, 0 < M < 3, has exactly those M images replaced by the first M
   fragments in order, the shortfall is reported as a warning with the found
   and expected counts, and the document is still written. *)
C2_Shortfall ==
    (script \in {"enhanced", "final"} /\ ~HasPlaceholder(Src)
        /\ Len(Images(script, Src)) \in 1..2)
    => /\ Replaced =>
            /\ html_content
                 = Spliced(script, Src, Fragments(script, charts), 1)
            /\ Logged("Warning: Expected 3 images, found",
                      Len(Images(script, Src)))
       /\ Done => Out = File(html_content)

(* C3: when the source document holds more embedded images than the script
   has fragments, the images after the first len(fragments) stay where they
   were, unchanged, and are in the written output. *)
C3_SurplusUntouched ==
    (~HasPlaceholder(Src)
        /\ Len(Images(script, Src)) > NumFragments(script))
    => /\ Replaced =>
            html_content = Spliced(script, Src, Fragments(script, charts), 1)
       /\ Done =>
            Images(script, Out.content)
              = SubSeq(Images(script, Src), NumFragments(script) + 1,
                       Len(Images(script, Src)))

(* C4: in every state of every run, finished or failed, the source file has
   the content it had when the run started and is never open for writing;
   no file but the script's output file, a path other than the source path,
   is created, written or open for writing. *)
C4_SourceUntouched ==
    /\ fs[SrcPath] = srcAtStart
    /\ OutPath(script) # SrcPath
    /\ \A h \in open :
          /\ h.path = SrcPath => h.mode = "r"
          /\ h.mode = "w" => h.path = OutPath(script)
    /\ \A p \in Paths \ { SrcPath, OutPath(script) } : fs[p] = Absent

C4_Witness ==
    /\ Done
    /\ Out.exists /\ Out.content # Src
    /\ fs[SrcPath].exists

(* the same frame on a failed run, reached after the output was opened *)
C4_WitnessFailed ==
    /\ pc = "failed"
    /\ Out.exists
    /\ fs[SrcPath] = srcAtStart

-----------------------------------------------------------------------------
ClosingMarkers == { HeadClose, BodyClose, HtmlClose }

(* tok stands immediately before the marker somewhere in doc *)
RightBefore(doc, tok, marker) ==
    \E i \in 1..(Len(doc) - 1) : doc[i] = tok /\ doc[i + 1] = marker

(* C5: no replacement fragment contains a head-closing, body-closing or
   html-closing marker, so the image replacement leaves the number of each
   of these markers as it was in the source document. *)
C5_FragmentsCarryNoClosingMarker ==
    /\ charts # NoCharts =>
          \A k \in 1..NumFragments(script) : \A m \in ClosingMarkers :
              ~Contains(Fragments(script, charts)[k], m)
    /\ Replaced =>
          \A m \in ClosingMarkers : Count(html_content, m) = Count(Src, m)

(* C6: a source document with exactly one head-closing marker is written
   with exactly one copy of the style block, right before a head-closing
   marker. *)
C6_StyleBlockOnce ==
    (Done /\ Count(Src, HeadClose) = 1 /\ ~HasPlaceholder(Src))
    => /\ Count(Out.content, StyleBlock(script)) = 1
       /\ RightBefore(Out.content, StyleBlock(script), HeadClose)

(* C7: a source document with exactly one body-closing marker is written by
   the enhanced and final scripts with exactly one copy of the summary
   block, right before a body-closing marker; create_charts.py writes the
   summary section exactly once, right after the first closing table tag
   when the source has one. *)
C7_SummaryBlockOnce ==
    /\ (Done /\ script # "charts" /\ Count(Src, BodyClose) = 1
            /\ ~HasPlaceholder(Src))
       => /\ Count(Out.content, SummaryDiv(data)) = 1
          /\ RightBefore(Out.content, SummaryDiv(data), BodyClose)
    /\ (Done /\ script = "charts" /\ Contains(Src, TableClose))
       => /\ Count(Out.content, SectionHead) = 1
          /\ Out.content[Find(Out.content, TableClose) + 1] = SectionHead

(* C8: on every image-patched document the style insertion and the summary
   insertion give the same document in either order. *)
C8_EditsCommute ==
    Replaced =>
        InsertStyleOp(script,
                      InsertSummaryOp(script, data, charts, html_content))
          = InsertSummaryOp(script, data, charts,
                            InsertStyleOp(script, html_content))

(* C9: when the source lacks the anchor of an insertion (the closing table
   tag in create_charts.py, the body-closing or the head-closing marker in
   the other scripts), the block is in the written output all the same. *)
C9_BlockKeptWithoutAnchor ==
    Done =>
      /\ (script = "charts" /\ ~Contains(Src, TableClose))
            => Contains(Out.content, SectionHead)
      /\ (script # "charts" /\ ~Contains(Src, BodyClose))
            => Contains(Out.content, SummaryDiv(data))
      /\ (script # "charts" /\ ~Contains(Src, HeadClose))
            => Contains(Out.content, StyleBlock(script))

-----------------------------------------------------------------------------
(* the script applied to the document it has written *)
Second == Patch(script, data, charts, Out.content)

(* the block the summary insertion adds *)
SummaryBlock(s, d) == IF s = "charts" THEN SectionHead ELSE SummaryDiv(d)

(* C10 as stated: every run against the untouched source writes the output
   of the first run; applied to its own output, the script replaces no image
   and adds a further copy of the style block and of the summary block. *)
C10_SecondApplicationAddsCopies ==
    Done =>
      /\ Out.content = firstOut
      /\ ReplaceImagesOp(script, charts, Out.content) = Out.content
      /\ Count(Second, StyleBlock(script))
           > Count(Out.content, StyleBlock(script))
      /\ Count(Second, SummaryBlock(script, data))
           > Count(Out.content, SummaryBlock(script, data))

(* C10 amended: every run against the untouched source writes the output of
   the first run.  Applied to its own output P, the script replaces no image
   when the source held no more images than there are fragments (and never
   in create_final_charts.py); it adds one style block per head-closing
   marker of its result, hence at least one per head-closing marker of P;
   the enhanced and final scripts add one summary block per body-closing
   marker of their result, create_charts.py adds one summary section when P
   has a closing table tag and none otherwise; so the second application
   changes P whenever P has a head-closing marker. *)
C10_Reapplication ==
    Done =>
      /\ Out.content = firstOut
      /\ (script = "final"
            \/ Len(Images(script, Src)) <= NumFragments(script))
         => ReplaceImagesOp(script, charts, Out.content) = Out.content
      /\ Count(Second, StyleBlock(script))
           = Count(Out.content, StyleBlock(script))
               + Count(Second, HeadClose)
      /\ Count(Second, HeadClose) >= Count(Out.content, HeadClose)
      /\ script # "charts" =>
           /\ Count(Second, SummaryDiv(data))
                = Count(Out.content, SummaryDiv(data))
                    + Count(Second, BodyClose)
           /\ Count(Second, BodyClose) >= Count(Out.content, BodyClose)
      /\ script = "charts" =>
           Count(Second, SectionHead)
             = Count(Out.content, SectionHead)
                 + (IF Contains(Out.content, TableClose) THEN 1 ELSE 0)
      /\ Contains(Out.content, HeadClose) => Second # Out.content

C10_Witness ==
    /\ Done /\ runs = 2 /\ script = "final"
    /\ Len(Images(script, Src)) = 3
    /\ Out.content = firstOut
    /\ Count(Out.content, StyleBlock(script)) = 2
    /\ Count(Second, StyleBlock(script)) = 4
    /\ Count(Second, SummaryDiv(data)) = 4

-----------------------------------------------------------------------------
(* the charts have been computed from the loaded table *)
Charted == pc = "charted"

(* rows of the loaded table with no sessions in one of the periods *)
ZeroSessionRows ==
    { i \in 1..Len(data) :
        data[i].sessions_pre = 0 \/ data[i].sessions_post = 0 }

(* C11: for any data file, rows with zero session counts included, the
   counts of improved (> 0), declined (< 0) and unchanged (== 0) pages that
   the chart functions compute add up to the number of rows. *)
C11_ClassesSumToRows ==
    Charted => stats.wins + stats.losses + stats.neutral = Len(data)

-----------------------------------------------------------------------------
(* the rows of the data file of the run *)
Input == csv.content

(* the total of a column of the data file *)
Total(column) ==
    LET RECURSIVE UpTo(_)
        UpTo(i) == IF i = 0 THEN 0 ELSE UpTo(i - 1) + Input[i][column]
    IN  UpTo(Len(Input))

Abs(n) == IF n < 0 THEN 0 - n ELSE n

RECURSIVE Gcd(_, _)
Gcd(a, b) == IF b = 0 THEN a ELSE Gcd(b, a % b)

(* a quotient with a non-zero denominator, in lowest terms *)
Lowest(q) ==
    LET g == Gcd(Abs(q.num), Abs(q.den))
        sign == IF q.den < 0 THEN -1 ELSE 1
    IN  [ num |-> sign * (q.num \div g), den |-> sign * (q.den \div g) ]

(* two quotients with non-zero denominators denote the same number *)
QEq(a, b) == Lowest(a) = Lowest(b)

(* C12: when both session totals are non-zero, the headline rate of each
   period is sum(conversions) / sum(sessions) * 100 over all rows of the data
   file, and the headline percentage-point change is the post rate minus the
   pre rate. *)
C12_AggregateFromSums ==
    LET h == stats.headline
        pre == Quot(Total("conversions_pre") * 100, Total("sessions_pre"))
        post == Quot(Total("conversions_post") * 100, Total("sessions_post"))
    IN  (Charted /\ Total("sessions_pre") # 0 /\ Total("sessions_post") # 0)
        => /\ h.overall_conv_rate_pre.den # 0
           /\ h.overall_conv_rate_post.den # 0
           /\ h.conv_rate_change_pp.den # 0
           /\ QEq(h.overall_conv_rate_pre, pre)
           /\ QEq(h.overall_conv_rate_post, post)
           /\ QEq(h.conv_rate_change_pp,
                  Quot(post.num * pre.den - pre.num * post.den,
                       post.den * pre.den))

(* a two-row table with unequal non-zero session counts whose headline rates
   differ from the means of the per-row rates *)
C12_Witness ==
    /\ Charted
    /\ Len(Input) = 2
    /\ \A i \in 1..2 : Input[i].sessions_pre # 0 /\ Input[i].sessions_post # 0
    /\ Input[1].sessions_pre # Input[2].sessions_pre
    /\ Input[1].sessions_post # Input[2].sessions_post
    /\ ~QEq(stats.headline.overall_conv_rate_pre,
            MeanOfRates(Input, "conversions_pre", "sessions_pre"))
    /\ ~QEq(stats.headline.overall_conv_rate_post,
            MeanOfRates(Input, "conversions_post", "sessions_post"))

-----------------------------------------------------------------------------
(* the table has been loaded and its derived columns computed *)
Loaded == pc \notin {"start", "failed"} \/ (pc = "failed" /\ data # << >>)

(* v, a count of 10^-P units, is conversions / sessions * 100 rounded to P
   places: no count of units is nearer to the quotient *)
IsRounded(v, conversions, sessions, P) ==
    2 * Abs(v * sessions - conversions * 100 * Pow10(P)) <= sessions

(* C13: for every row with non-zero session counts, conversion_rate_pre and
   conversion_rate_post are conversions / sessions * 100 rounded to the
   script's precision P, conversion_rate_change is their difference at that
   precision, conversions_change and sessions_change are post minus pre; the
   row (sessions 100/120, conversions 5/9) gives 5.0, 7.5 and 2.5. *)
C13_PerRowFields ==
    Loaded =>
      /\ Len(data) = Len(Input)
      /\ \A i \in 1..Len(Input) :
           LET row == Input[i]
               out == data[i]
               P == Precision(script)
           IN  (row.sessions_pre # 0 /\ row.sessions_post # 0)
               => /\ out.conversion_rate_pre.k = "fin"
                  /\ out.conversion_rate_post.k = "fin"
                  /\ IsRounded(out.conversion_rate_pre.v,
                               row.conversions_pre, row.sessions_pre, P)
                  /\ IsRounded(out.conversion_rate_post.v,
                               row.conversions_post, row.sessions_post, P)
                  /\ out.conversion_rate_change
                       = Fin(out.conversion_rate_post.v
                             - out.conversion_rate_pre.v)
                  /\ out.conversions_change
                       = row.conversions_post - row.conversions_pre
                  /\ out.sessions_change
                       = row.sessions_post - row.sessions_pre
                  /\ (<< row.sessions_pre, row.sessions_post,
                         row.conversions_pre, row.conversions_post >>
                        = << 100, 120, 5, 9 >>)
                     => /\ out.conversion_rate_pre = Fin(5 * Pow10(P))
                        /\ 2 * out.conversion_rate_post.v = 15 * Pow10(P)
                        /\ 2 * out.conversion_rate_change.v = 5 * Pow10(P)

(* a loaded table that holds the example row and a row whose rate had to be
   rounded *)
C13_Witness ==
    /\ pc = "loaded"
    /\ \E i \in 1..Len(Input) :
         /\ << Input[i].sessions_pre, Input[i].sessions_post,
               Input[i].conversions_pre, Input[i].conversions_post >>
              = << 100, 120, 5, 9 >>
         /\ 2 * data[i].conversion_rate_change.v = 5 * Pow10(Precision(script))
    /\ \E j \in 1..Len(Input) :
         /\ Input[j].sessions_pre # 0
         /\ Input[j].sessions_post # 0
         /\ data[j].conversion_rate_post.v * Input[j].sessions_post
              > Input[j].conversions_post * 100 * Pow10(Precision(script))

-----------------------------------------------------------------------------
(* a rate that is 0 or not-a-number, reading NaN as the value that stands for
   'not applicable' *)
ZeroOrNotApplicable(r) == r = Fin(0) \/ r = NaN

(* C14: a row with no sessions before or no sessions after does not make the
   run raise a division error, and the rate of the period without sessions is
   0 or the 'not applicable' value. *)
C14_ZeroSessionsDefined ==
    /\ ZeroSessionRows # { } => ~Logged("Error: ZeroDivisionError", 0)
    /\ \A i \in ZeroSessionRows :
         /\ data[i].sessions_pre = 0
              => ZeroOrNotApplicable(data[i].conversion_rate_pre)
         /\ data[i].sessions_post = 0
              => ZeroOrNotApplicable(data[i].conversion_rate_post)

-----------------------------------------------------------------------------
(* the run has stopped on an exception *)
Failed == pc = "failed"

(* the exceptions of the runs *)
Errors ==
    { "FileNotFoundError", "ZeroDivisionError", "OSError", "PermissionError" }

(* messages the top level has logged for a caught exception *)
ErrorsLogged ==
    { i \in 1..Len(log) : \E e \in Errors : log[i] = Msg("Error: " \o e, 0) }

(* C15: in each of the three scripts a run that raises has the exception
   caught once at the top level and logged with a message, and ends with a
   non-zero exit status. *)
C15_FailureCaughtLoggedNonZero ==
    Failed => /\ Cardinality(ErrorsLogged) = 1
              /\ ExitStatus(script, pc) # 0

-----------------------------------------------------------------------------
(* the pages of a list of rows, in order *)
Pages(rows) == [ i \in 1..Len(rows) |-> rows[i].page ]

(* number of times the page is listed *)
Listed(rows, page) == Cardinality({ i \in 1..Len(rows) : rows[i].page = page })

(* C16: in create_top_performers_chart (enhanced: top 15 and bottom 5,
   final: top 12 and bottom 3) the top rows followed by the bottom rows hold
   every row of the table exactly once when the two sizes together reach the
   row count, the two selections share no row otherwise, and the concatenated
   list names no page twice, whatever the table size. *)
C16_TopAndBottomDisjoint ==
    (Charted /\ script \in {"enhanced", "final"}) =>
      /\ TopK(script) + BottomK(script) >= Len(data)
           => \A i \in 1..Len(data) : Listed(stats.combined, data[i].page) = 1
      /\ TopK(script) + BottomK(script) < Len(data)
           => \A i \in 1..Len(data) :
                ~(Listed(stats.top, data[i].page) > 0
                  /\ Listed(stats.bottom, data[i].page) > 0)
      /\ \A i \in 1..Len(stats.combined) :
           Listed(stats.combined, stats.combined[i].page) = 1

-----------------------------------------------------------------------------
(* the change of a row *)
Change(row) == row.conversion_rate_change

(* rows lists n rows of the table, each at most once *)
SelectsFrom(rows, table, n) ==
    /\ Len(rows) = IF Len(table) < n THEN Len(table) ELSE n
    /\ \A i \in 1..Len(rows) :
         /\ \E a \in 1..Len(table) : table[a] = rows[i]
         /\ Listed(rows, rows[i].page) = 1

(* rows is the selection of the n best rows of the table, best first, where
   largest tells whether a larger change is better: no row outside the list
   is better than a listed row, no listed row is better than a row listed
   before it, and of two rows with the same change the one earlier in the
   table is taken first and listed first *)
Ranked(rows, table, n, largest) ==
    LET Better(x, y) == IF largest THEN FGt(x, y) ELSE FGt(y, x)
        In(a) == Listed(rows, table[a].page) > 0
        At(a) == CHOOSE i \in 1..Len(rows) : rows[i].page = table[a].page
    IN  /\ SelectsFrom(rows, table, n)
        /\ \A i, j \in 1..Len(rows) :
             i < j => ~Better(Change(rows[j]), Change(rows[i]))
        /\ \A a, b \in 1..Len(table) :
             /\ (In(a) /\ ~In(b)) => ~Better(Change(table[b]), Change(table[a]))
             /\ (a < b /\ FEq(Change(table[a]), Change(table[b])))
                  => /\ In(b) => In(a)
                     /\ (In(a) /\ In(b)) => At(a) < At(b)

(* C17: the top list holds the K rows with the largest conversion_rate_change
   in descending order, the bottom list the K rows with the smallest in
   ascending order, all rows when the table has fewer than K; of rows with
   equal change the one earlier in the table is selected first and listed
   first. *)
C17_RankingStable ==
    Charted => /\ Ranked(stats.top, data, TopK(script), TRUE)
               /\ Ranked(stats.bottom, data, BottomK(script), FALSE)

(* a table of create_charts.py with more rows than the top list, where the
   list holds rows of different change and leaves out a row whose change
   equals that of a listed row *)
C17_Witness ==
    /\ Charted
    /\ script = "charts"
    /\ Len(data) > TopK(script)
    /\ \E i, j \in 1..Len(stats.top) :
         FGt(Change(stats.top[i]), Change(stats.top[j]))
    /\ \E a, b \in 1..Len(data) :
         /\ a < b
         /\ Change(data[a]) = Change(data[b])
         /\ Listed(stats.top, data[a].page) = 1
         /\ Listed(stats.top, data[b].page) = 0

(* a table of create_final_charts.py with more rows than the bottom list,
   whose bottom list leaves out a row that ties with a listed row *)
C17_WitnessBottom ==
    /\ Charted
    /\ script = "final"
    /\ Len(data) > BottomK(script)
    /\ \E a, b \in 1..Len(data) :
         /\ a < b
         /\ Change(data[a]) = Change(data[b])
         /\ Listed(stats.bottom, data[a].page) = 1
         /\ Listed(stats.bottom, data[b].page) = 0

-----------------------------------------------------------------------------
(* a rate field of script s as a count of 10^-4 units *)
InTenThousandths(x, s) ==
    IF x.k = "fin" THEN Fin(x.v * Pow10(4 - Precision(s))) ELSE x

(* the class of a row by its change *)
Class(x) ==
    IF FGt(x, Fin(0)) THEN "improved"
    ELSE IF FGt(Fin(0), x) THEN "declined"
    ELSE IF FEq(x, Fin(0)) THEN "unchanged"
    ELSE "none"

(* C18: for the same data file the three scripts derive identical
   conversion_rate_pre, conversion_rate_post and conversion_rate_change for
   every row, and so put every row in the same class. *)
C18_UniformPrecision ==
    Loaded =>
      \A s \in Scripts : \A i \in 1..Len(Input) :
        LET mine == data[i]
            theirs == Derive(s, Input)[i]
        IN  /\ InTenThousandths(mine.conversion_rate_pre, script)
                 = InTenThousandths(theirs.conversion_rate_pre, s)
            /\ InTenThousandths(mine.conversion_rate_post, script)
                 = InTenThousandths(theirs.conversion_rate_post, s)
            /\ InTenThousandths(mine.conversion_rate_change, script)
                 = InTenThousandths(theirs.conversion_rate_change, s)
            /\ Class(mine.conversion_rate_change)
                 = Class(theirs.conversion_rate_change)

-----------------------------------------------------------------------------
(* the run has ended, by completion or by an exception *)
Ended == pc \in {"done", "failed"}

(* C19: at most one of the handles of the source document and of the output
   document is open at any time, and when the run has ended, by completion or
   by an exception raised while a file was open, neither is open. *)
C19_HandlesScoped ==
    /\ open \subseteq { Handle(SrcPath, "r"), Handle(OutPath(script), "w") }
    /\ Cardinality(open) <= 1
    /\ Ended => open = { }

(* a run ended by a write that failed while the output file was open: the
   file has been created empty and the edited document is not in it *)
C19_Witness ==
    /\ Failed
    /\ Out.exists
    /\ Out.content = << >>
    /\ html_content # << >>
    /\ open = { }

-----------------------------------------------------------------------------
(* C20: in create_final_charts.py, for every source document, with any
   number of embedded images, that does not itself contain the text of a
   placeholder token, the written output contains no placeholder token. *)
C20_NoPlaceholderWritten ==
    (Done /\ script = "final" /\ ~HasPlaceholder(Src))
    => ~HasPlaceholder(Out.content)

-----------------------------------------------------------------------------
(* number of chart containers in doc: every spliced fragment opens with the
   container tag of its chart, and no source document holds such a tag *)
RECURSIVE ContainersIn(_, _, _)
ContainersIn(s, doc, k) ==
    IF k = 0 THEN 0
    ELSE Count(doc, ContainerOpen(s, k)) + ContainersIn(s, doc, k - 1)

(* number of source images that stand replaced by a chart fragment in the
   written output, for a source without placeholder text *)
ImagesReplaced == ContainersIn(script, Out.content, NumFragments(script))

(* C21: in the enhanced and final scripts the number of the closing
   'Replaced K base64 images with interactive charts' message is the number
   of source images that stand replaced by a chart fragment in the written
   output. *)
C21_FinalCountAccurate ==
    (Done /\ script \in {"enhanced", "final"} /\ ~HasPlaceholder(Src))
    => Logged("Replaced base64 images with interactive charts",
              ImagesReplaced)

-----------------------------------------------------------------------------
(* no replacement fragment of the script holds an embedded image *)
FragmentsImageFree ==
    \A k \in 1..NumFragments(script) :
      Images(script, Fragments(script, charts)[k]) = << >>

(* C22: in create_enhanced_charts.py and create_charts.py, when no fragment
   holds an embedded image, the successive first-match substitutions, each
   rescanning the document from its start, give the document of one
   left-to-right pass over the source that replaces the k-th image by the
   k-th fragment. *)
C22_SubstitutionsAreOnePass ==
    (Replaced /\ script \in {"enhanced", "charts"} /\ FragmentsImageFree)
    => html_content = Spliced(script, Src, Fragments(script, charts), 1)

(* a source with other text between two images, so that the second
   substitution scans past the fragment the first one inserted; one image is
   left over in create_charts.py *)
C22_Witness ==
    /\ Replaced
    /\ script = "charts"
    /\ FragmentsImageFree
    /\ Len(Images(script, Src)) = 3
    /\ \E i \in 2..(Len(Src) - 1) :
         /\ base64_pattern(script, Src[i - 1])
         /\ ~base64_pattern(script, Src[i])
         /\ base64_pattern(script, Src[i + 1])
    /\ Len(Images(script, html_content)) = 1

-----------------------------------------------------------------------------
(* a is an initial part of b *)
IsPrefix(a, b) == Len(a) <= Len(b) /\ a = SubSeq(b, 1, Len(a))

(* the steps of a run in the order the claim names them *)
StatedOrder ==
    << "load", "charts", "read", "images", "style", "summary", "write" >>

(* the steps of a run in the order of each script: create_charts.py inserts
   its summary section before the style block *)
ScriptOrder(s) ==
    IF s = "charts"
    THEN << "load", "charts", "read", "images", "summary", "style", "write" >>
    ELSE StatedOrder

(* the steps that come before the write *)
BeforeWrite(order) == SubSeq(order, 1, Len(order) - 1)

(* one step of a run keeps to the order: the completed steps are an initial
   part of it, so each is completed at most once; the output file changes
   only when all steps before the write are completed; a step that raises
   before that leaves every file as it is *)
KeepsTo(order) ==
    /\ IsPrefix(steps', order)
    /\ fs'[OutPath(script)] # fs[OutPath(script)]
         => IsPrefix(BeforeWrite(order), steps)
    /\ (pc' = "failed" /\ ~IsPrefix(BeforeWrite(order), steps)) => fs' = fs

(* C23 as stated: in every script the output file is written at most once and
   only after loading, chart generation, the read of the source, image
   replacement, style insertion and summary insertion have completed in that
   order; a run in which an earlier step raises does not create or change
   the output file. *)
C23_OrderAsStated == [][KeepsTo(StatedOrder)]_vars

(* C23 amended: the same, with the order of each script, in which
   create_charts.py inserts the summary section before the style block. *)
C23_Ordering == [][KeepsTo(ScriptOrder(script))]_vars

(* a completed run of create_charts.py: all steps in the order of the script,
   the output written last *)
C23_Witness ==
    /\ Done
    /\ script = "charts"
    /\ steps = ScriptOrder(script)
    /\ Out = File(html_content)

(* a second run that raised before the write and left the output of the
   first run as it was *)
C23_WitnessFailed ==
    /\ Failed
    /\ runs = 2
    /\ ~IsPrefix(BeforeWrite(ScriptOrder(script)), steps)
    /\ Out = File(firstOut)

=============================================================================
